---------------------------- MODULE Spec2Model ----------------------------
(***************************************************************************)
(* Character-overlap detector (run.py): geometry primitives, watermark     *)
(* classifier, whitespace trimmer, page grouper, overlap finder and the    *)
(* per-document pipeline process_pdf.                                       *)
(*                                                                         *)
(* Numbers.  The program computes on Python floats.  The model computes on *)
(* exact rationals in fixed point:                                         *)
(*   - a length is an integer number of ticks, TicksPerPoint ticks = 1.0;  *)
(*   - a trim fraction is an integer number of 1/FracDen;                  *)
(*   - a percentage and a rounded area are integers in hundredths          *)
(*     (1429 is 14.29), which is what round(v, 2) returns.                 *)
(* The inputs are chosen so that every product the code forms is an exact  *)
(* number of ticks (TrimExact below), so no value is truncated.  round()   *)
(* is modelled on the exact quotient (half to even); the float quotient    *)
(* the program rounds differs from it by a relative error near 1e-16.      *)
(*                                                                         *)
(* Characters are one-character strings.  A character that cannot be       *)
(* written in a string of this language is named by its code point         *)
(* ("U+0022" is the straight double quote); PyLen gives such a name the    *)
(* length 1.                                                               *)
(***************************************************************************)
EXTENDS Integers, Sequences, FiniteSets, TLC

VARIABLES
    call,         \* a direct call of one of the pure functions: its name and arguments
    ret,          \* what that call returned (NoRet before it returns)
    pc,           \* process_pdf: the position in the pipeline
    glyphs_list,  \* process_pdf: the flat glyph list the extractor returned
    args,         \* process_pdf: the keyword arguments used so far
    by_page,      \* group_glyphs_by_page's result: an insertion-ordered dict
    scan,         \* find_overlaps_by_page's result (4-tuple as a record)
    report,       \* process_pdf's remaining results: marked_path, json_path
    trace         \* the functions process_pdf has called, in order

vars == <<call, ret, pc, glyphs_list, args, by_page, scan, report, trace>>

--------------------------------------------------------------------------
(* Fixed point *)

\* 0.1, the floor of a trimmed width or height, in ticks.
MinDim == 40

TicksPerPoint == 10 * MinDim

\* The trim table is written in hundredths (0.05, 0.12, ...).
PctDen == 100

\* The default trim scale 1.0: a scale is an integer number of halves, so
\* a scaled fraction is an integer number of 1/FracDen.
ScaleDen == 2
FracDen == PctDen * ScaleDen

\* round(v, 2) keeps hundredths.
Hundredths == 100

\* Ticks^2 in one hundredth of a square point.
AreaDen == (TicksPerPoint * TicksPerPoint) \div Hundredths

Max(a, b) == IF a >= b THEN a ELSE b
Min(a, b) == IF a <= b THEN a ELSE b
Abs(a) == IF a >= 0 THEN a ELSE -a

\* round() of the exact quotient n/d (d > 0) to an integer, half to even.
RoundNonNeg(n, d) ==
    LET q == n \div d
        r == n % d
    IN  IF 2 * r < d THEN q
        ELSE IF 2 * r > d THEN q + 1
        ELSE IF q % 2 = 0 THEN q ELSE q + 1

RoundHalfEven(n, d) == IF n >= 0 THEN RoundNonNeg(n, d) ELSE -RoundNonNeg(-n, d)

\* round(n / d * 100, 2) in hundredths, for 0 <= n and 0 < d: the quotient
\* n*10000/d by long division, one decimal digit at a time, so that no
\* intermediate value leaves the 32-bit range of TLC's integers.
RECURSIVE LongDiv(_, _, _, _)
LongDiv(q, r, d, digits) ==
    IF digits = 0
    THEN IF 2 * r < d THEN q
         ELSE IF 2 * r > d THEN q + 1
         ELSE IF q % 2 = 0 THEN q ELSE q + 1
    ELSE LongDiv(10 * q + (10 * r) \div d, (10 * r) % d, d, digits - 1)

RoundPct(n, d) ==
    IF n >= 0 THEN LongDiv(n \div d, n % d, d, 4)
    ELSE -LongDiv((-n) \div d, (-n) % d, d, 4)

--------------------------------------------------------------------------
(* Geometry primitives.  A box is <<x, y, w, h>>. *)

intersects_strict(a, b) ==
    ~ (a[1] + a[3] < b[1] \/ b[1] + b[3] <= a[1] \/ a[2] + a[4] <= b[2] \/ b[2] + b[4] <= a[2])

intersects(a, b) ==
    LET ax == a[1]  ay == a[2]  aw == a[3]  ah == a[4]
        bx == b[1]  by == b[2]  bw == b[3]  bh == b[4]
    IN  ~ (ax + aw <= bx \/ bx + bw <= ax \/ ay + ah <= by \/ by + bh <= ay)

NoIntersection ==
    [overlap_area |-> 0, percentage_of_a |-> 0, percentage_of_b |-> 0,
     percentage_of_total |-> 0]

\* The guard of line 41: TRUE when the computed rectangle is inverted.
Inverted_and(x_left, y_bottom, x_right, y_top) == x_right < x_left /\ y_top < y_bottom

Inverted(x_left, y_bottom, x_right, y_top) == x_right < x_left \/ y_top < y_bottom

\* The union area of line 54.
UnionArea_sum(area_a, area_b, overlap_area) == area_a + area_b

UnionArea(area_a, area_b, overlap_area) == area_a + area_b - overlap_area

calculate_overlap_percentage(a, b) ==
    LET ax == a[1]  ay == a[2]  aw == a[3]  ah == a[4]
        bx == b[1]  by == b[2]  bw == b[3]  bh == b[4]
        x_left == Max(ax, bx)
        y_bottom == Max(ay, by)
        x_right == Min(ax + aw, bx + bw)
        y_top == Min(ay + ah, by + bh)
        overlap_area == (x_right - x_left) * (y_top - y_bottom)
        area_a == aw * ah
        area_b == bw * bh
        total_area == UnionArea(area_a, area_b, overlap_area)
    IN  IF Inverted(x_left, y_bottom, x_right, y_top)
        THEN NoIntersection
        ELSE [overlap_area |-> RoundHalfEven(overlap_area, AreaDen),
              percentage_of_a |->
                  IF area_a > 0 THEN RoundPct(overlap_area, area_a) ELSE 0,
              percentage_of_b |->
                  IF area_b > 0 THEN RoundPct(overlap_area, area_b) ELSE 0,
              percentage_of_total |->
                  IF total_area > 0 THEN RoundPct(overlap_area, total_area) ELSE 0]

--------------------------------------------------------------------------
(* Characters *)

\* Characters with no spelling in a string of this language, by code point:
\* backslash, straight double quote, backtick, the four curly quotes, the
\* multiplication and division signs and the non-ASCII diacritics.
NamedChars ==
    {"U+005C", "U+0022", "U+0060", "U+201C", "U+201D", "U+2018", "U+2019",
     "U+00D7", "U+00F7", "U+02DC", "U+02C7", "U+02D8", "U+00A8", "U+02DA",
     "U+02D9", "U+02DB", "U+02DD"}

\* len(s) of a Python string.
PyLen(s) == IF s \in NamedChars THEN 1 ELSE Len(s)

LowerCase ==
    <<"a", "b", "c", "d", "e", "f", "g", "h", "i", "j", "k", "l", "m",
      "n", "o", "p", "q", "r", "s", "t", "u", "v", "w", "x", "y", "z">>

UpperCase ==
    <<"A", "B", "C", "D", "E", "F", "G", "H", "I", "J", "K", "L", "M",
      "N", "O", "P", "Q", "R", "S", "T", "U", "V", "W", "X", "Y", "Z">>

Digits == {"0", "1", "2", "3", "4", "5", "6", "7", "8", "9"}

Range(s) == {s[i] : i \in DOMAIN s}

\* str.upper() of a one-character string.
Upper(ch) ==
    IF \E i \in DOMAIN LowerCase : LowerCase[i] = ch
    THEN UpperCase[CHOOSE i \in DOMAIN LowerCase : LowerCase[i] = ch]
    ELSE ch

\* str.isdigit() and str.isalpha() of a one-character string (the trimmer
\* is given one-character strings only).
IsDigit(ch) == ch \in Digits
IsAlpha(ch) == ch \in Range(LowerCase) \cup Range(UpperCase)

\* dict.get(key, default)
Get(d, key, default) == IF key \in DOMAIN d THEN d[key] ELSE default

--------------------------------------------------------------------------
(* Watermark classifier.  Font sizes are whole points. *)

DefaultWatermarkFontSize == 40

LetterFontSize == 20

\* set('UNCORRECTEDPROFDTALIMWY')
watermark_chars ==
    Range(<<"U", "N", "C", "O", "R", "R", "E", "C", "T", "E", "D", "P", "R",
            "O", "F", "D", "T", "A", "L", "I", "M", "W", "Y">>)

DefaultPatterns ==
    <<"UNCORRECTED", "CORRECTED", "PROOF", "DRAFT", "CONFIDENTIAL",
      "PRELIMINARY", "WATERMARK">>

\* The test of line 80.
LargeFont_gt(fontSize, watermark_font_size) == fontSize > watermark_font_size

LargeFont(fontSize, watermark_font_size) == fontSize >= watermark_font_size

\* watermark_patterns = "None" stands for the default None.
is_watermark(glyph, watermark_font_size, watermark_patterns) ==
    LET patterns == IF watermark_patterns = <<"None">> THEN DefaultPatterns
                    ELSE watermark_patterns
        char == glyph.char
    IN  IF LargeFont(Get(glyph, "fontSize", 0), watermark_font_size) THEN TRUE
        ELSE IF /\ Get(glyph, "fontSize", 0) > LetterFontSize
                /\ PyLen(char) = 1
                /\ Upper(char) \in watermark_chars
             THEN TRUE
             ELSE FALSE

--------------------------------------------------------------------------
(* Whitespace trimmer.  A fraction is a number of 1/FracDen; the scale is *)
(* a number of 1/ScaleDen, so 0.05 * scale is 5 * scale / FracDen.        *)

punct_small == {",", ".", ";", ":", "U+0060", "'", "U+0022"}
thin_stems == {"i", "l", "|", "1", "t"}
hooks == {"f", "j"}
brackets == {"(", ")", "[", "]", "{", "}"}
math_ops == {"+", "-", "=", "U+00D7", "U+00F7", "/", "*", "U+005C"}
quotes == {"U+201C", "U+201D", "U+2018", "U+2019", "U+0022", "'"}
diacritics ==
    {"U+02DC", "^", "~", "U+02C7", "U+02D8", "U+00A8", "U+02DA", "U+02D9",
     "U+02DB", "U+02DD"}

\* <<lr, tb>> in hundredths, before scaling.
CategoryPercents(ch) ==
    IF ch \in punct_small THEN <<25, 25>>
    ELSE IF ch \in thin_stems THEN <<12, 18>>
    ELSE IF ch \in hooks THEN <<10, 12>>
    ELSE IF ch \in brackets \/ ch \in quotes THEN <<8, 10>>
    ELSE IF ch \in math_ops THEN <<10, 10>>
    ELSE IF ch \in diacritics THEN <<20, 20>>
    ELSE IF IsDigit(ch) THEN <<6, 8>>
    ELSE IF IsAlpha(ch) THEN <<7, 10>>
    ELSE <<5, 5>>

_get_char_trim_percents(ch, scale) ==
    LET lr == CategoryPercents(ch)[1] * scale
        tb == CategoryPercents(ch)[2] * scale
    IN  [left |-> lr, right |-> lr, top |-> tb, bottom |-> tb]

\* The floor of lines 156 and 157: max(0.1, v).
FloorDim_none(v) == v

FloorDim(v) == Max(MinDim, v)

\* The early return of line 140.
Degenerate(w, h) == w <= 0 \/ h <= 0

\* w * lt is exact when FracDen divides it (see TrimExact).
_apply_trim(bbox, percents) ==
    LET x == bbox[1]  y == bbox[2]  w == bbox[3]  h == bbox[4]
        lt == Get(percents, "left", 0)
        rt == Get(percents, "right", 0)
        tp == Get(percents, "top", 0)
        bt == Get(percents, "bottom", 0)
        dx_left == (w * lt) \div FracDen
        dx_right == (w * rt) \div FracDen
        dy_top == (h * tp) \div FracDen
        dy_bottom == (h * bt) \div FracDen
        new_x == x + dx_left
        new_y == y + dy_bottom
        new_w == FloorDim(w - dx_left - dx_right)
        new_h == FloorDim(h - dy_top - dy_bottom)
    IN  IF Degenerate(w, h) THEN <<x, y, w, h>>
        ELSE <<new_x, new_y, new_w, new_h>>

\* The trim of bbox for (ch, scale) loses nothing to integer division.
TrimExact(bbox, ch, scale) ==
    LET p == _get_char_trim_percents(ch, scale)
    IN  /\ (bbox[3] * p.left) % FracDen = 0
        /\ (bbox[4] * p.top) % FracDen = 0

--------------------------------------------------------------------------
(* Page grouper.  A glyph record is a dict with the keys char, bbox,       *)
(* fontSize and page; a record with no page key is one whose page is None. *)
(* An insertion-ordered dict is a sequence of [page, ...] entries with     *)
(* distinct pages.                                                         *)

HasKey(d, page) == \E k \in DOMAIN d : d[k].page = page
KeyIndex(d, page) == CHOOSE k \in DOMAIN d : d[k].page = page

\* The glyph_dict put in front of the page's list instead of at its end.
SetDefaultAppend_front(d, page, glyph_dict) ==
    IF HasKey(d, page)
    THEN [d EXCEPT ![KeyIndex(d, page)].glyphs = <<glyph_dict>> \o @]
    ELSE Append(d, [page |-> page, glyphs |-> <<glyph_dict>>])

\* by_page.setdefault(page, []).append(glyph_dict)
SetDefaultAppend(d, page, glyph_dict) ==
    IF HasKey(d, page)
    THEN [d EXCEPT ![KeyIndex(d, page)].glyphs = Append(@, glyph_dict)]
    ELSE Append(d, [page |-> page, glyphs |-> <<glyph_dict>>])

\* Lines 184-196: the glyph_dict of a retained glyph, its box trimmed when
\* trimming is enabled.
GlyphDict(g, enable_char_trim, trim_scale) ==
    LET bbox == IF enable_char_trim
                THEN _apply_trim(g.bbox, _get_char_trim_percents(g.char, trim_scale))
                ELSE g.bbox
    IN  [char |-> g.char, x |-> bbox[1], y |-> bbox[2],
         width |-> bbox[3], height |-> bbox[4]]

\* GroupStep with the watermark test moved before the page test.
GroupStep_watermark_first(g, filter_watermarks, enable_char_trim, trim_scale) ==
    IF filter_watermarks /\ is_watermark(g, DefaultWatermarkFontSize, <<"None">>)
    THEN [kind |-> "continue"]
    ELSE IF "page" \notin DOMAIN g
    THEN [kind |-> "raise"]
    ELSE [kind |-> "append", page |-> g.page,
          glyph_dict |-> GlyphDict(g, enable_char_trim, trim_scale)]

\* One iteration of the loop of lines 172-197: raise, skip the glyph, or
\* the glyph_dict to append and its page.
GroupStep(g, filter_watermarks, enable_char_trim, trim_scale) ==
    IF "page" \notin DOMAIN g
    THEN [kind |-> "raise"]
    ELSE IF filter_watermarks /\ is_watermark(g, DefaultWatermarkFontSize, <<"None">>)
    THEN [kind |-> "continue"]
    ELSE [kind |-> "append", page |-> g.page,
          glyph_dict |-> GlyphDict(g, enable_char_trim, trim_scale)]

RECURSIVE GroupLoop(_, _, _, _, _, _)
GroupLoop(glyphs, k, filter_watermarks, enable_char_trim, trim_scale, acc) ==
    IF k > Len(glyphs) THEN acc
    ELSE LET step == GroupStep(glyphs[k], filter_watermarks, enable_char_trim, trim_scale)
         IN  IF step.kind = "raise"
             THEN [raised |-> TRUE]
             ELSE IF step.kind = "continue"
             THEN GroupLoop(glyphs, k + 1, filter_watermarks, enable_char_trim, trim_scale,
                            [acc EXCEPT !.filtered_count = @ + 1])
             ELSE GroupLoop(glyphs, k + 1, filter_watermarks, enable_char_trim, trim_scale,
                            [acc EXCEPT
                                !.by_page = SetDefaultAppend(@, step.page, step.glyph_dict),
                                !.trimmed_count = IF enable_char_trim THEN @ + 1 ELSE @])

\* [raised |-> TRUE] for the ValueError, else the dict and the two counters
\* the function prints.
group_glyphs_by_page(glyphs, filter_watermarks, enable_char_trim, trim_scale) ==
    GroupLoop(glyphs, 1, filter_watermarks, enable_char_trim, trim_scale,
              [raised |-> FALSE, by_page |-> <<>>, filtered_count |-> 0,
               trimmed_count |-> 0])

--------------------------------------------------------------------------
(* Overlap finder *)

BoxOf(g) == <<g.x, g.y, g.width, g.height>>

\* The test of line 244.
ExceedsThreshold_ge(percentage_of_union, threshold) == percentage_of_union >= threshold

ExceedsThreshold_lt(percentage_of_union, threshold) == percentage_of_union < threshold

ExceedsThreshold(percentage_of_union, threshold) == percentage_of_union > threshold

\* The first j of the inner loop of line 234.
InnerStart(i) == i + 1

\* Lines 254-255: only the first box joins the set.
AddBoxes_first(page_rects, box_i, box_j) == page_rects \cup {box_i}

\* Lines 254-255: page_rects.add(box_i); page_rects.add(box_j).
AddBoxes(page_rects, box_i, box_j) == page_rects \cup {box_i, box_j}

\* The body of the inner loop, lines 235-257.
PairStep(page_num, gi, gj, threshold, acc) ==
    LET box_i == BoxOf(gi)
        box_j == BoxOf(gj)
    IN  IF intersects(box_i, box_j)
        THEN LET overlap_metrics == calculate_overlap_percentage(box_i, box_j)
                 percentage_of_union == overlap_metrics.percentage_of_total
             IN  IF ExceedsThreshold(percentage_of_union, threshold)
                 THEN [acc EXCEPT
                          !.total = @ + 1,
                          !.overlaps = Append(@, [page |-> page_num, a |-> box_i, b |-> box_j,
                                                  char_a |-> gi.char, char_b |-> gj.char,
                                                  percentage_of_union |-> percentage_of_union]),
                          !.page_rects = AddBoxes(@, box_i, box_j)]
                 ELSE [acc EXCEPT !.filtered_count = @ + 1]
        ELSE acc

RECURSIVE InnerLoop(_, _, _, _, _, _)
InnerLoop(page_num, glyphs, i, j, threshold, acc) ==
    IF j > Len(glyphs) THEN acc
    ELSE InnerLoop(page_num, glyphs, i, j + 1, threshold,
                   PairStep(page_num, glyphs[i], glyphs[j], threshold, acc))

RECURSIVE OuterLoop(_, _, _, _, _)
OuterLoop(page_num, glyphs, i, threshold, acc) ==
    IF i > Len(glyphs) THEN acc
    ELSE OuterLoop(page_num, glyphs, i + 1, threshold,
                   InnerLoop(page_num, glyphs, i, InnerStart(i), threshold, acc))

\* The loop over the pages, lines 226-260.  page_rects is a set; the list
\* made of it at line 260 is kept as that set (its order is unspecified).
RECURSIVE PageLoop(_, _, _, _)
PageLoop(glyphs_by_page, k, threshold, acc) ==
    IF k > Len(glyphs_by_page) THEN acc
    ELSE LET page_num == glyphs_by_page[k].page
             done == OuterLoop(page_num, glyphs_by_page[k].glyphs, 1, threshold,
                               [acc EXCEPT !.page_rects = {}])
         IN  PageLoop(glyphs_by_page, k + 1, threshold,
                      IF done.page_rects # {}
                      THEN [done EXCEPT !.highlights_by_page =
                                Append(@, [page |-> page_num, rects |-> done.page_rects])]
                      ELSE done)

find_overlaps_by_page(glyphs_by_page, overlap_percentage_threshold) ==
    LET r == PageLoop(glyphs_by_page, 1, overlap_percentage_threshold,
                      [overlaps |-> <<>>, highlights_by_page |-> <<>>, total |-> 0,
                       filtered_count |-> 0, page_rects |-> {}])
    IN  [overlaps |-> r.overlaps, highlights_by_page |-> r.highlights_by_page,
         total |-> r.total, filtered_count |-> r.filtered_count]

--------------------------------------------------------------------------
(* Statistics engine *)

\* Counter that counts a character once however often it occurs.
CountChar_once(counts, ch) ==
    IF \E k \in DOMAIN counts : counts[k].character = ch
    THEN counts
    ELSE Append(counts, [character |-> ch, overlap_count |-> 1])

\* Counter: char_counts[ch] += 1, keys in first-insertion order.
CountChar(counts, ch) ==
    IF \E k \in DOMAIN counts : counts[k].character = ch
    THEN [counts EXCEPT ![CHOOSE k \in DOMAIN counts : counts[k].character = ch].overlap_count = @ + 1]
    ELSE Append(counts, [character |-> ch, overlap_count |-> 1])

RECURSIVE CountLoop(_, _, _)
CountLoop(overlaps, k, counts) ==
    IF k > Len(overlaps) THEN counts
    ELSE CountLoop(overlaps, k + 1,
                   CountChar(CountChar(counts, overlaps[k].char_a), overlaps[k].char_b))

RECURSIVE SumCounts(_, _)
SumCounts(counts, k) ==
    IF k > Len(counts) THEN 0 ELSE counts[k].overlap_count + SumCounts(counts, k + 1)

\* Counter.most_common(): by count, largest first; equal counts keep their
\* insertion order.
RECURSIVE MostCommon(_)
MostCommon(counts) ==
    IF counts = <<>> THEN <<>>
    ELSE LET best == CHOOSE k \in DOMAIN counts :
                         /\ \A m \in DOMAIN counts : counts[m].overlap_count <= counts[k].overlap_count
                         /\ \A m \in 1..(k - 1) : counts[m].overlap_count < counts[k].overlap_count
         IN  <<counts[best]>> \o
             MostCommon(SubSeq(counts, 1, best - 1) \o SubSeq(counts, best + 1, Len(counts)))

calculate_character_statistics(overlaps) ==
    LET char_counts == CountLoop(overlaps, 1, <<>>)
        total_occurrences == SumCounts(char_counts, 1)
        ranked == MostCommon(char_counts)
    IN  IF char_counts = <<>>
        THEN [character_stats |-> <<>>, total_unique_chars |-> 0]
        ELSE [character_stats |->
                  [k \in DOMAIN ranked |->
                      [character |-> ranked[k].character,
                       overlap_count |-> ranked[k].overlap_count,
                       percentage |-> RoundPct(ranked[k].overlap_count, total_occurrences)]],
              total_unique_chars |-> Len(char_counts),
              total_character_occurrences |-> total_occurrences]

--------------------------------------------------------------------------
(* Direct calls of the pure functions *)

NoCall == [fn |-> "none"]
NoRet == [done |-> FALSE]
Returned(v) == [done |-> TRUE, value |-> v]

\* process_pdf not running.
Idle ==
    /\ pc = "idle"
    /\ glyphs_list = <<>>
    /\ args = [none |-> TRUE]
    /\ by_page = <<>>
    /\ scan = [none |-> TRUE]
    /\ report = [none |-> TRUE]
    /\ trace = <<>>

pipeline == <<pc, glyphs_list, args, by_page, scan, report, trace>>

\* Geometry inputs: boxes on a grid of 5.0-point cells, degenerate (zero
\* width or height) boxes included.
MaxGeomCoord == 2
MaxGeomDim == 2
GridStep == 5 * TicksPerPoint

GeomBoxes ==
    {<<x * GridStep, y * GridStep, w * GridStep, h * GridStep>> :
        x \in 0..MaxGeomCoord, y \in 0..MaxGeomCoord,
        w \in 0..MaxGeomDim, h \in 0..MaxGeomDim}

InitGeom ==
    /\ call \in [fn : {"intersects", "calculate_overlap_percentage"},
                 a : GeomBoxes, b : GeomBoxes]
    /\ ret = NoRet
    /\ Idle

CallIntersects ==
    /\ call.fn = "intersects"
    /\ ret = NoRet
    /\ ret' = Returned(intersects(call.a, call.b))
    /\ UNCHANGED <<call, pipeline>>

CallOverlapPercentage ==
    /\ call.fn = "calculate_overlap_percentage"
    /\ ret = NoRet
    /\ ret' = Returned(calculate_overlap_percentage(call.a, call.b))
    /\ UNCHANGED <<call, pipeline>>

NextGeom == CallIntersects \/ CallOverlapPercentage

SpecGeom == InitGeom /\ [][NextGeom]_vars

\* Watermark inputs.  A glyph may lack its fontSize key (get's default 0).
MaxFontSize == 45
WatermarkChars == {"a", "A", "u", "U", "y", "x", "X", "b", "B", "1", ",", "fi", "U+201C"}
WatermarkThresholds == {10, 20, DefaultWatermarkFontSize, 60}
WatermarkPatterns == {<<"None">>, <<>>, <<"X">>, <<"a", "B">>}

WatermarkGlyphs ==
    [char : WatermarkChars, fontSize : 0..MaxFontSize] \cup [char : WatermarkChars]

InitWatermark ==
    /\ call \in [fn : {"is_watermark"}, glyph : WatermarkGlyphs,
                 watermark_font_size : WatermarkThresholds,
                 watermark_patterns : WatermarkPatterns]
    /\ ret = NoRet
    /\ Idle

CallIsWatermark ==
    /\ call.fn = "is_watermark"
    /\ ret = NoRet
    /\ ret' = Returned(is_watermark(call.glyph, call.watermark_font_size,
                                    call.watermark_patterns))
    /\ UNCHANGED <<call, pipeline>>

NextWatermark == CallIsWatermark

SpecWatermark == InitWatermark /\ [][NextWatermark]_vars

\* Trimmer inputs: widths and heights in steps of 0.05, from 0 (degenerate)
\* through 0.1 (the floor) upward; one character of every category of the
\* table; scales from -1.0 in steps of 0.5.
MaxTrimDim == 6
MaxTrimScale == 10
TrimDimStep == MinDim \div 2
TrimDims == {k * TrimDimStep : k \in 0..MaxTrimDim}
TrimScales == (-ScaleDen)..MaxTrimScale
TrimChars == {",", "i", "f", "(", "U+0022", "U+201C", "+", "~", "5", "A", " "}
TrimOrigins == {<<0, 0>>, <<3 * MinDim, MinDim>>}

InitTrim ==
    /\ call \in {c \in [fn : {"_apply_trim"},
                        bbox : {<<o[1], o[2], w, h>> :
                                   o \in TrimOrigins, w \in TrimDims, h \in TrimDims},
                        ch : TrimChars, scale : TrimScales] :
                    TrimExact(c.bbox, c.ch, c.scale)}
    /\ ret = NoRet
    /\ Idle

\* Lines 186-187: the profile of the character, then the trim.
CallApplyTrim ==
    /\ call.fn = "_apply_trim"
    /\ ret = NoRet
    /\ LET perc == _get_char_trim_percents(call.ch, call.scale)
       IN  ret' = Returned([percents |-> perc, bbox |-> _apply_trim(call.bbox, perc)])
    /\ UNCHANGED <<call, pipeline>>

NextTrim == CallApplyTrim

SpecTrim == InitTrim /\ [][NextTrim]_vars

--------------------------------------------------------------------------
(* process_pdf: extract, group, scan, report.  The keyword arguments are   *)
(* fixed by the caller; each is drawn where the pipeline first reads it.   *)

MaxGlyphs == 3

Glyph(ch, page, x, y, w, h, fontSize) ==
    [char |-> ch, page |-> page, bbox |-> <<x, y, w, h>>, fontSize |-> fontSize]

\* Two 10 x 10 boxes offset by (5, 5), a comma-sized box that cuts a corner
\* of the first by 0.0025 x 0.0025, a box on a second page, a large letter
\* of the watermark set, and a watermark-sized glyph with no page number.
GlyphPool ==
    {Glyph("A", 1, 0, 0, 10 * TicksPerPoint, 10 * TicksPerPoint, 12),
     Glyph("i", 1, 5 * TicksPerPoint, 5 * TicksPerPoint,
           10 * TicksPerPoint, 10 * TicksPerPoint, 12),
     Glyph(",", 1, 10 * TicksPerPoint - 1, 10 * TicksPerPoint - 1,
           TicksPerPoint \div 2, TicksPerPoint \div 2, 12),
     Glyph("A", 2, 0, 0, 10 * TicksPerPoint, 10 * TicksPerPoint, 12),
     Glyph("U", 1, (5 * TicksPerPoint) \div 2, (5 * TicksPerPoint) \div 2,
           10 * TicksPerPoint, 10 * TicksPerPoint, 25),
     [char |-> "D", bbox |-> <<0, 0, 10 * TicksPerPoint, 10 * TicksPerPoint>>,
      fontSize |-> 41]}

GlyphLists == UNION {[1..n -> GlyphPool] : n \in 0..MaxGlyphs}

\* Trim scales 0.5 and 1.0; union thresholds 0, 14.29 and 50 percent;
\* overlap-count thresholds 0 and 1.
PipelineScales == {1, ScaleDen}
UnionThresholds == {0, 1429, 50 * Hundredths}
OverlapThresholds == {0, 1}

Init ==
    /\ call = NoCall
    /\ ret = NoRet
    /\ pc = "extracted"
    /\ glyphs_list \in GlyphLists
    /\ args = [none |-> TRUE]
    /\ by_page = <<>>
    /\ scan = [none |-> TRUE]
    /\ report = [none |-> TRUE]
    /\ trace = <<"extract_glyph_bboxes">>

\* Line 493.  The ValueError leaves process_pdf: nothing is assigned.
Group ==
    /\ pc = "extracted"
    /\ \E filter_watermarks \in BOOLEAN, enable_char_trim \in BOOLEAN,
          trim_scale \in PipelineScales :
          /\ enable_char_trim \/ trim_scale = ScaleDen
          /\ \A k \in DOMAIN glyphs_list :
                 TrimExact(glyphs_list[k].bbox, glyphs_list[k].char, trim_scale)
          /\ args' = [filter_watermarks |-> filter_watermarks,
                      enable_char_trim |-> enable_char_trim,
                      trim_scale |-> trim_scale]
          /\ LET r == group_glyphs_by_page(glyphs_list, filter_watermarks,
                                           enable_char_trim, trim_scale)
             IN  IF r.raised
                 THEN pc' = "raised" /\ by_page' = by_page
                 ELSE pc' = "grouped" /\ by_page' = r.by_page
    /\ trace' = Append(trace, "group_glyphs_by_page")
    /\ UNCHANGED <<call, ret, glyphs_list, scan, report>>

\* Lines 496-498.
Find ==
    /\ pc = "grouped"
    /\ \E union_percentage_threshold \in UnionThresholds :
          /\ args' = [k \in DOMAIN args \cup {"union_percentage_threshold"} |->
                         IF k = "union_percentage_threshold"
                         THEN union_percentage_threshold ELSE args[k]]
          /\ scan' = find_overlaps_by_page(by_page, union_percentage_threshold)
    /\ pc' = "scanned"
    /\ trace' = Append(trace, "find_overlaps_by_page")
    /\ UNCHANGED <<call, ret, glyphs_list, by_page, report>>

\* Lines 500-517: annotate when the count exceeds overlap_threshold, the
\* statistics when there is an overlap, the JSON export when asked for.
Report ==
    /\ pc = "scanned"
    /\ \E overlap_threshold \in OverlapThresholds, export_json \in BOOLEAN :
          LET marked == scan.total > overlap_threshold
              stats == scan.total > 0
              json == export_json /\ scan.total > 0
          IN  /\ args' = [k \in DOMAIN args \cup {"overlap_threshold", "export_json"} |->
                             IF k = "overlap_threshold" THEN overlap_threshold
                             ELSE IF k = "export_json" THEN export_json ELSE args[k]]
              /\ report' = [total_overlaps |-> scan.total,
                            marked_path |-> marked,
                            json_path |-> json,
                            char_stats |->
                                IF stats THEN calculate_character_statistics(scan.overlaps)
                                ELSE [none |-> TRUE],
                            filtered_count |-> scan.filtered_count]
              /\ trace' = trace
                    \o (IF marked THEN <<"annotate_pdf">> ELSE <<>>)
                    \o (IF stats THEN <<"calculate_character_statistics">> ELSE <<>>)
                    \o (IF json THEN <<"export_overlaps_to_json">> ELSE <<>>)
    /\ pc' = "returned"
    /\ UNCHANGED <<call, ret, glyphs_list, by_page, scan>>

Next == Group \/ Find \/ Report

Spec == Init /\ [][Next]_vars

--------------------------------------------------------------------------
(* Properties of the geometry primitives (SpecGeom).  The reference is     *)
(* counted in cells of the grid, independently of the code's arithmetic:   *)
(* a box covers a cell when the cell lies inside it, and the intersection  *)
(* of two boxes is the set of cells both cover.                            *)

GeomCells == (0..(MaxGeomCoord + MaxGeomDim)) \X (0..(MaxGeomCoord + MaxGeomDim))

CoversCell(box, c) ==
    /\ box[1] <= c[1] * GridStep /\ (c[1] + 1) * GridStep <= box[1] + box[3]
    /\ box[2] <= c[2] * GridStep /\ (c[2] + 1) * GridStep <= box[2] + box[4]

CellsOf(box) == {c \in GeomCells : CoversCell(box, c)}
SharedCells(a, b) == CellsOf(a) \cap CellsOf(b)

\* One cell's area in hundredths of a square unit.
CellArea == (GridStep * GridStep) \div AreaDen

Positive(box) == box[3] > 0 /\ box[4] > 0

IntersectsReturned == call.fn = "intersects" /\ ret.done

\* C6 as stated: intersects(a, b) is TRUE iff the two boxes share strictly
\* positive area, for all boxes, and intersects(a, b) = intersects(b, a).
C6_IntersectsIffPositiveArea ==
    IntersectsReturned =>
        /\ ret.value <=> (SharedCells(call.a, call.b) # {})
        /\ ret.value = intersects(call.b, call.a)

\* C6 amended: for boxes of positive width and height intersects(a, b) is
\* TRUE iff the boxes share strictly positive area (touching edges or
\* corners do not count); for all boxes intersects(a, b) = intersects(b, a).
C6_IntersectsPositiveBoxes ==
    IntersectsReturned =>
        /\ (Positive(call.a) /\ Positive(call.b)) =>
               (ret.value <=> (SharedCells(call.a, call.b) # {}))
        /\ ret.value = intersects(call.b, call.a)

\* C6 witness: two positive boxes that touch along a vertical edge and
\* overlap in y were found not to intersect.
C6_TouchingEdgeWitness ==
    /\ IntersectsReturned
    /\ Positive(call.a) /\ Positive(call.b)
    /\ call.a[1] + call.a[3] = call.b[1]
    /\ call.a[2] = call.b[2]
    /\ ret.value = FALSE

OverlapReturned == call.fn = "calculate_overlap_percentage" /\ ret.done

\* p (hundredths of a percent) is n/d*100 rounded to two decimals.
IsRoundedPct(p, n, d) == 2 * Abs(p * d - n * 100 * Hundredths) <= d

\* A percentage of the reference: n/d*100 rounded, and 0 when d is 0.
IsPctOf(p, n, d) == IF d > 0 THEN IsRoundedPct(p, n, d) ELSE p = 0

ScenarioA == <<0, 0, 10 * TicksPerPoint, 10 * TicksPerPoint>>
ScenarioB ==
    <<5 * TicksPerPoint, 5 * TicksPerPoint, 10 * TicksPerPoint, 10 * TicksPerPoint>>

\* C7: calculate_overlap_percentage(a, b) returns the reference metrics:
\* the area of the intersection rectangle, and that area as a percentage of
\* box a, of box b and of the union, each rounded to two decimals (0 for a
\* zero denominator); boxes that share no area give 0 everywhere; the boxes
\* (0,0,10,10) and (5,5,10,10) give area 25 and 14.29 percent of the union.
C7_OverlapMetricsMatchReference ==
    OverlapReturned =>
        LET shared == Cardinality(SharedCells(call.a, call.b))
            cells_a == Cardinality(CellsOf(call.a))
            cells_b == Cardinality(CellsOf(call.b))
            m == ret.value
        IN  /\ m.overlap_area = shared * CellArea
            /\ IsPctOf(m.percentage_of_a, shared, cells_a)
            /\ IsPctOf(m.percentage_of_b, shared, cells_b)
            /\ IsPctOf(m.percentage_of_total, shared, cells_a + cells_b - shared)
            /\ shared = 0 => m = NoIntersection
            /\ (call.a = ScenarioA /\ call.b = ScenarioB) =>
                   (m.overlap_area = 25 * Hundredths /\ m.percentage_of_total = 1429)

\* C7 witness: the scenario's call returned 14.29 percent of the union.
C7_ScenarioWitness ==
    /\ OverlapReturned
    /\ call.a = ScenarioA /\ call.b = ScenarioB
    /\ ret.value.percentage_of_total = 1429
    /\ ret.value.percentage_of_a = 25 * Hundredths

--------------------------------------------------------------------------
(* Properties of the watermark classifier (SpecWatermark) *)

WatermarkReturned == call.fn = "is_watermark" /\ ret.done

\* The letters of 'UNCORRECTEDPROFDTALIMWY', in both cases.
WatermarkLettersAnyCase ==
    {"U", "N", "C", "O", "R", "E", "T", "D", "P", "F", "A", "L", "I", "M", "W", "Y",
     "u", "n", "c", "o", "r", "e", "t", "d", "p", "f", "a", "l", "i", "m", "w", "y"}

--------------------------------------------------------------------------
(* Properties of the whitespace trimmer (SpecTrim) *)

TrimReturned == call.fn = "_apply_trim" /\ ret.done

\* C4 as stated (for every box, character and scale the trimmed box has
\* x' >= x, y' >= y, w' <= w, h' <= h, w' >= 0.1 and h' >= 0.1), taken on
\* the boxes with w > 0 and h > 0 and the scales >= 0 alone: the claim
\* covers every box and every scale, so what violates this violates it.
C4_TrimInvariantAsStated ==
    (TrimReturned /\ call.bbox[3] > 0 /\ call.bbox[4] > 0 /\ call.scale >= 0) =>
        LET b == call.bbox
            t == ret.value.bbox
        IN  /\ t[1] >= b[1] /\ t[2] >= b[2]
            /\ t[3] <= b[3] /\ t[4] <= b[4]
            /\ t[3] >= MinDim /\ t[4] >= MinDim

\* C4 amended: for every box with w > 0 and h > 0, w' >= 0.1 and h' >= 0.1;
\* if also the scale is >= 0 then x' >= x and y' >= y, w' <= w when
\* w >= 0.1, and h' <= h when h >= 0.1.  A box with w <= 0 or h <= 0 is
\* returned unchanged.
C4_TrimInvariantAmended ==
    TrimReturned =>
        LET b == call.bbox
            t == ret.value.bbox
        IN  IF b[3] > 0 /\ b[4] > 0
            THEN /\ t[3] >= MinDim /\ t[4] >= MinDim
                 /\ call.scale >= 0 =>
                        /\ t[1] >= b[1] /\ t[2] >= b[2]
                        /\ b[3] >= MinDim => t[3] <= b[3]
                        /\ b[4] >= MinDim => t[4] <= b[4]
            ELSE t = b

\* C4 witness: a box wider and taller than 0.1, trimmed at a positive
\* scale, whose trimmed width was raised to the floor 0.1 and whose
\* trimmed height was not.
C4_FloorWitness ==
    /\ TrimReturned
    /\ call.scale > 0
    /\ call.bbox[3] > MinDim /\ call.bbox[4] > MinDim
    /\ call.bbox[3] * (FracDen - 2 * ret.value.percents.left) < MinDim * FracDen
    /\ ret.value.bbox[3] = MinDim
    /\ ret.value.bbox[4] > MinDim
    /\ ret.value.bbox[1] > call.bbox[1]

\* C5, taken at the default scale 1.0 alone: for every box with w > 0 and
\* h > 0 and every character, the trimmed box nests inside the original
\* (x <= x', y <= y', x' + w' <= x + w, y' + h' <= y + h) and every
\* per-side trim fraction lies in [0, 1).  The claim covers every scale, so
\* what violates this violates it.
C5_TrimmedBoxNests ==
    (TrimReturned /\ call.bbox[3] > 0 /\ call.bbox[4] > 0 /\ call.scale = ScaleDen) =>
        LET b == call.bbox
            t == ret.value.bbox
            p == ret.value.percents
        IN  /\ b[1] <= t[1] /\ b[2] <= t[2]
            /\ t[1] + t[3] <= b[1] + b[3]
            /\ t[2] + t[4] <= b[2] + b[4]
            /\ \A side \in DOMAIN p : 0 <= p[side] /\ p[side] < FracDen

--------------------------------------------------------------------------
(* Properties of the overlap finder and of process_pdf (Spec) *)

Scanned == pc \in {"scanned", "returned"}

Threshold == args.union_percentage_threshold

\* The unordered pairs of glyphs of one page: <<k, i, j>> is the pair at
\* positions i < j of the k-th page of by_page.
SamePagePairs ==
    {pr \in (DOMAIN by_page) \X (1..Len(glyphs_list)) \X (1..Len(glyphs_list)) :
        pr[2] < pr[3] /\ pr[3] <= Len(by_page[pr[1]].glyphs)}

PairA(pr) == by_page[pr[1]].glyphs[pr[2]]
PairB(pr) == by_page[pr[1]].glyphs[pr[3]]
PairIntersects(pr) == intersects(BoxOf(PairA(pr)), BoxOf(PairB(pr)))
PairPct(pr) ==
    calculate_overlap_percentage(BoxOf(PairA(pr)), BoxOf(PairB(pr))).percentage_of_total

IntersectingPairs == {pr \in SamePagePairs : PairIntersects(pr)}
KeptPairs == {pr \in IntersectingPairs : PairPct(pr) > Threshold}
FilteredPairs == {pr \in IntersectingPairs : PairPct(pr) <= Threshold}

\* Scan order: pages in dict order, then i, then j.
Before(q, pr) ==
    \/ q[1] < pr[1]
    \/ q[1] = pr[1] /\ q[2] < pr[2]
    \/ q[1] = pr[1] /\ q[2] = pr[2] /\ q[3] < pr[3]

RecordOf(pr) ==
    [page |-> by_page[pr[1]].page,
     a |-> BoxOf(PairA(pr)), b |-> BoxOf(PairB(pr)),
     char_a |-> PairA(pr).char, char_b |-> PairB(pr).char,
     percentage_of_union |-> PairPct(pr)]

\* C1: find_overlaps_by_page classifies every same-page pair i < j exactly
\* once: the kept records are, in scan order, the records of exactly the
\* pairs that intersect with percentage-of-union > t; the filtered-out
\* count is the number of pairs that intersect with percentage <= t; a pair
\* that does not intersect contributes nothing.  So no kept record has
\* percentage <= t, total is the length of the record list, total +
\* filtered is the number of intersecting same-page pairs, and every record
\* pairs two glyphs of one page.
C1_PairsClassifiedOnce ==
    Scanned =>
        /\ Len(scan.overlaps) = Cardinality(KeptPairs)
        /\ \A pr \in KeptPairs :
               scan.overlaps[1 + Cardinality({q \in KeptPairs : Before(q, pr)})] = RecordOf(pr)
        /\ scan.filtered_count = Cardinality(FilteredPairs)
        /\ scan.total = Len(scan.overlaps)
        /\ scan.total + scan.filtered_count = Cardinality(IntersectingPairs)
        /\ \A m \in DOMAIN scan.overlaps :
               /\ scan.overlaps[m].percentage_of_union > Threshold
               /\ \E pr \in SamePagePairs : RecordOf(pr) = scan.overlaps[m]

\* C1 witness: a scan in which one pair was kept, one pair was filtered
\* out at its threshold and one same-page pair did not intersect.
C1_ThreeWayWitness ==
    /\ Scanned
    /\ KeptPairs # {}
    /\ FilteredPairs # {}
    /\ SamePagePairs \ IntersectingPairs # {}
    /\ scan.total >= 1 /\ scan.filtered_count >= 1

\* The intersection rectangle of a and b has area > 0.
PositiveArea(a, b) ==
    /\ Min(a[1] + a[3], b[1] + b[3]) - Max(a[1], b[1]) > 0
    /\ Min(a[2] + a[4], b[2] + b[4]) - Max(a[2], b[2]) > 0

\* C2: with the union-percentage threshold 0, every same-page pair of boxes
\* of positive width and height whose intersection rectangle has area > 0
\* is kept as an OverlapRecord, and no such pair is counted as filtered out.
C2_ZeroThresholdKeepsAnyOverlap ==
    (Scanned /\ Threshold = 0) =>
        /\ \A pr \in SamePagePairs :
               (/\ Positive(BoxOf(PairA(pr))) /\ Positive(BoxOf(PairB(pr)))
                /\ PositiveArea(BoxOf(PairA(pr)), BoxOf(PairB(pr)))) =>
                   \E m \in DOMAIN scan.overlaps : scan.overlaps[m] = RecordOf(pr)
        /\ scan.filtered_count =
               Cardinality({pr \in IntersectingPairs :
                               ~PositiveArea(BoxOf(PairA(pr)), BoxOf(PairB(pr)))})

\* s is a sub-sequence of t (same relative order).
RECURSIVE IsSubSeq(_, _)
IsSubSeq(s, t) ==
    IF s = <<>> THEN TRUE
    ELSE IF t = <<>> THEN FALSE
    ELSE IF Head(s) = Head(t) THEN IsSubSeq(Tail(s), Tail(t))
    ELSE IsSubSeq(s, Tail(t))

\* C3: for the same grouped pages and thresholds lo <= hi, the scan at hi
\* keeps no more records than the scan at lo, its records are a
\* sub-sequence of those kept at lo, and kept + filtered-out is the same.
C3_ThresholdMonotone ==
    Scanned =>
        \A t \in UnionThresholds :
            LET other == find_overlaps_by_page(by_page, t)
                lo == IF Threshold <= t THEN scan ELSE other
                hi == IF Threshold <= t THEN other ELSE scan
            IN  /\ hi.total <= lo.total
                /\ IsSubSeq(hi.overlaps, lo.overlaps)
                /\ hi.total + hi.filtered_count = lo.total + lo.filtered_count

\* C3 witness: a scan at threshold 0 that kept at least two records, of
\* which a higher threshold keeps some but not all.
C3_StrictDropWitness ==
    /\ Scanned
    /\ Threshold = 0
    /\ scan.total >= 2
    /\ \E t \in UnionThresholds :
           LET other == find_overlaps_by_page(by_page, t)
           IN  other.total >= 1 /\ other.total < scan.total

HasMissingPage == \E k \in DOMAIN glyphs_list : "page" \notin DOMAIN glyphs_list[k]

\* C10: group_glyphs_by_page raises whenever some glyph of the list has no
\* page number, whatever the filter and trim options and whether or not
\* that glyph is a watermark, and only then; after the error process_pdf
\* holds no page groups and has called neither the scan, the annotation,
\* the statistics nor the export.
C10_MissingPageFails ==
    (pc # "extracted") =>
        /\ (pc = "raised") <=> HasMissingPage
        /\ (pc = "raised") =>
               /\ by_page = <<>>
               /\ scan = [none |-> TRUE]
               /\ report = [none |-> TRUE]
               /\ trace = <<"extract_glyph_bboxes", "group_glyphs_by_page">>

\* C10 witness: with watermark filtering on, a list whose first glyph is a
\* retained glyph with a page and whose second glyph is a watermark with no
\* page number raised the error.
C10_WatermarkWithoutPageWitness ==
    /\ pc = "raised"
    /\ args.filter_watermarks
    /\ Len(glyphs_list) >= 2
    /\ "page" \in DOMAIN glyphs_list[1]
    /\ ~is_watermark(glyphs_list[1], DefaultWatermarkFontSize, <<"None">>)
    /\ "page" \notin DOMAIN glyphs_list[2]
    /\ is_watermark(glyphs_list[2], DefaultWatermarkFontSize, <<"None">>)

--------------------------------------------------------------------------
(* Identical boxes: direct calls and the pipeline together *)

InitIdentical == InitGeom \/ Init
NextIdentical == NextGeom \/ Next
SpecIdentical == InitIdentical /\ [][NextIdentical]_vars

Hundred == 100 * Hundredths

AllHundred(m) ==
    /\ m.percentage_of_a = Hundred
    /\ m.percentage_of_b = Hundred
    /\ m.percentage_of_total = Hundred

RecordsOfPage(page) == SelectSeq(scan.overlaps, LAMBDA r : r.page = page)

\* A page of exactly two glyphs with the same box, scanned at threshold 0,
\* has exactly one record, of 100 percent.
IdenticalPairScanned(k) ==
    LET recs == RecordsOfPage(by_page[k].page)
    IN  Len(recs) = 1 /\ recs[1].percentage_of_union = Hundred

TwoIdentical(k) ==
    /\ Len(by_page[k].glyphs) = 2
    /\ BoxOf(by_page[k].glyphs[1]) = BoxOf(by_page[k].glyphs[2])

\* C8 as stated: for every box a, calculate_overlap_percentage(a, a) gives
\* 100 for the three percentages, and two glyphs with identical boxes on
\* one page at threshold 0 give exactly one record of 100 percent.
C8_IdenticalBoxesEveryBox ==
    /\ (OverlapReturned /\ call.a = call.b) => AllHundred(ret.value)
    /\ (pc \in {"scanned", "returned"} /\ Threshold = 0) =>
           \A k \in DOMAIN by_page : TwoIdentical(k) => IdenticalPairScanned(k)

\* C8 amended: for every box a of positive width and height,
\* calculate_overlap_percentage(a, a) gives 100 for the three percentages,
\* and two glyphs with identical boxes of positive width and height on one
\* page at threshold 0 give exactly one record of 100 percent.  (For a box
\* of zero width or height the percentages are 0.)
C8_IdenticalPositiveBoxes ==
    /\ (OverlapReturned /\ call.a = call.b) =>
           IF Positive(call.a) THEN AllHundred(ret.value)
           ELSE ret.value = NoIntersection
    /\ (pc \in {"scanned", "returned"} /\ Threshold = 0) =>
           \A k \in DOMAIN by_page :
               (TwoIdentical(k) /\ Positive(BoxOf(by_page[k].glyphs[1]))) =>
                   IdenticalPairScanned(k)

\* C8 witness: the scenario's two identical glyphs 'A' on page 1, box
\* (0,0,10,10), scanned at threshold 0: one record of 100 percent.
C8_ScenarioWitness ==
    /\ pc = "scanned"
    /\ Threshold = 0
    /\ Len(glyphs_list) = 2
    /\ glyphs_list[1] = glyphs_list[2]
    /\ glyphs_list[1] = Glyph("A", 1, 0, 0, 10 * TicksPerPoint, 10 * TicksPerPoint, 12)
    /\ ~args.enable_char_trim
    /\ scan.total = 1
    /\ scan.overlaps[1].percentage_of_union = Hundred

--------------------------------------------------------------------------
(* main: the batch loop over the input documents.  The frame of main is    *)
(* kept in call; process_pdf is the pipeline above, run to its return or   *)
(* to its exception within one iteration of the loop.                      *)

\* A document as the pipeline sees it: the glyphs the extractor returns and
\* the step of process_pdf at which the environment fails, if any
\* (extract: the file cannot be read; annotate, export: the output cannot
\* be written).
Document(glyphs, fault) == [glyphs |-> glyphs, fault |-> fault]

Raised == [raised |-> TRUE]

\* Lines 500-517 of process_pdf: the outputs written for the overlaps
\* found, and the tuple returned.
ProcessFound(found, doc, o) ==
    LET marked == found.total > o.overlap_threshold
        json == o.export_json /\ found.total > 0
    IN  IF marked /\ doc.fault = "annotate" THEN Raised
        ELSE IF json /\ doc.fault = "export" THEN Raised
        ELSE [raised |-> FALSE,
              overlaps_count |-> found.total,
              marked_path |-> marked,
              json_path |-> json,
              char_stats |->
                  IF found.total > 0
                  THEN calculate_character_statistics(found.overlaps)
                  ELSE [none |-> TRUE],
              filtered_count |-> found.filtered_count]

\* Lines 495-498 of process_pdf, after the grouping.
ProcessGrouped(grouped, doc, o) ==
    IF grouped.raised THEN Raised
    ELSE ProcessFound(find_overlaps_by_page(grouped.by_page, o.union_percentage_threshold),
                      doc, o)

\* process_pdf, lines 489-517, with its keyword arguments o.
process_pdf(doc, o) ==
    IF doc.fault = "extract" THEN Raised
    ELSE ProcessGrouped(group_glyphs_by_page(doc.glyphs, o.filter_watermarks,
                                             o.enable_char_trim, o.trim_scale),
                        doc, o)

\* A path is doc<stem>.pdf or doc<stem>_marked.pdf; the directory may hold
\* the marked copy of the first document.
MaxDocs == 2
Paths ==
    [stem : 1..MaxDocs, marked : {FALSE}] \cup {[stem |-> 1, marked |-> TRUE]}

\* String order of two path names: by stem, and doc<k>.pdf before
\* doc<k>_marked.pdf ("." sorts before "_").
PathBefore(p, q) ==
    \/ p.stem < q.stem
    \/ p.stem = q.stem /\ ~p.marked /\ q.marked

\* sorted(glob.glob(...)), lines 573 and 584.
RECURSIVE sorted(_)
sorted(S) ==
    IF S = {} THEN <<>>
    ELSE LET first == CHOOSE p \in S : \A q \in S \ {p} : PathBefore(p, q)
         IN  <<first>> \o sorted(S \ {first})

\* Line 587: the paths that do not end with _marked.pdf, in order.
RECURSIVE SkipMarked(_)
SkipMarked(all_pdf_paths) ==
    IF all_pdf_paths = <<>> THEN <<>>
    ELSE (IF Head(all_pdf_paths).marked THEN <<>> ELSE <<Head(all_pdf_paths)>>)
         \o SkipMarked(Tail(all_pdf_paths))

\* The documents of a batch: no glyph, one overlapping pair, one pair and
\* a watermark (U), three pairs, a glyph without a page number, and
\* documents on which a step fails.
MainDocuments ==
    LET A == Glyph("A", 1, 0, 0, 10 * TicksPerPoint, 10 * TicksPerPoint, 12)
        i == Glyph("i", 1, 5 * TicksPerPoint, 5 * TicksPerPoint,
                   10 * TicksPerPoint, 10 * TicksPerPoint, 12)
        U == Glyph("U", 1, (5 * TicksPerPoint) \div 2, (5 * TicksPerPoint) \div 2,
                   10 * TicksPerPoint, 10 * TicksPerPoint, 25)
        D == [char |-> "D", bbox |-> <<0, 0, 10 * TicksPerPoint, 10 * TicksPerPoint>>,
              fontSize |-> 41]
    IN  {Document(<<>>, "none"),
         Document(<<A, i>>, "none"),
         Document(<<A, i, U>>, "none"),
         Document(<<A, i, i>>, "none"),
         Document(<<A, D, i>>, "none"),
         Document(<<A, i>>, "extract"),
         Document(<<A, i, i>>, "annotate"),
         Document(<<A, i, i>>, "export")}

\* The options main parses (lines 559-566); --include-watermarks,
\* --union-threshold, --trim-whitespace and --trim-scale at their defaults.
MainOptions ==
    [filter_watermarks : {TRUE}, overlap_threshold : OverlapThresholds,
     export_json : BOOLEAN, union_percentage_threshold : {0},
     enable_char_trim : {FALSE}, trim_scale : {ScaleDen}]

\* After the arguments are parsed and the input files are determined
\* (lines 559-587): the paths the glob found, each unmarked one with its
\* document.
InitMain ==
    /\ call \in UNION {
           {[fn |-> "main", options |-> o, files |-> files,
             all_pdf_paths |-> sorted(found),
             pdf_paths |-> SkipMarked(sorted(found)),
             position |-> 1, total_marked |-> 0, total_json |-> 0,
             printed |-> <<>>] :
               o \in MainOptions,
               files \in [{p \in found : ~p.marked} -> MainDocuments]} :
           found \in SUBSET Paths}
    /\ ret = NoRet
    /\ Idle

MainRunning == call.fn = "main" /\ ret = NoRet

\* Lines 589-591.
MainNoPdfs ==
    /\ MainRunning
    /\ call.pdf_paths = <<>>
    /\ call.printed = <<>>
    /\ call' = [call EXCEPT !.printed = <<[line |-> "No PDFs found"]>>]
    /\ ret' = Returned("None")
    /\ UNCHANGED pipeline

\* The loop position after the except clause of lines 646-647.
AfterError_break(position, count) == count + 1

AfterError(position, count) == position + 1

\* One iteration of the loop of lines 602-647 in which process_pdf returns.
MainIterationReturns ==
    /\ MainRunning
    /\ call.pdf_paths # <<>>
    /\ call.position <= Len(call.pdf_paths)
    /\ \E pdf_path \in {call.pdf_paths[call.position]} :
       \E r \in {process_pdf(call.files[pdf_path], call.options)} :
           /\ ~r.raised
           /\ call' = [call EXCEPT
                  !.position = @ + 1,
                  !.total_marked = IF r.overlaps_count # 0 /\ r.marked_path
                                   THEN @ + 1 ELSE @,
                  !.total_json = IF r.overlaps_count # 0 /\ r.json_path
                                 THEN @ + 1 ELSE @,
                  !.printed = Append(@,
                      [pdf_name |-> pdf_path,
                       line |-> IF r.overlaps_count = 0
                                THEN "No overlaps found" ELSE "overlaps",
                       statistics |-> r.overlaps_count # 0 /\ "none" \notin DOMAIN r.char_stats])]
    /\ UNCHANGED <<ret, pipeline>>

\* One iteration of the loop in which process_pdf raises: lines 646-647.
MainIterationRaises ==
    /\ MainRunning
    /\ call.pdf_paths # <<>>
    /\ call.position <= Len(call.pdf_paths)
    /\ \E pdf_path \in {call.pdf_paths[call.position]} :
       \E r \in {process_pdf(call.files[pdf_path], call.options)} :
           /\ r.raised
           /\ call' = [call EXCEPT
                  !.position = AfterError(@, Len(call.pdf_paths)),
                  !.printed = Append(@, [pdf_name |-> pdf_path, line |-> "Error"])]
    /\ UNCHANGED <<ret, pipeline>>

\* Lines 649-657: the summary of a batch of more than one document.
MainSummary ==
    /\ MainRunning
    /\ call.pdf_paths # <<>>
    /\ call.position > Len(call.pdf_paths)
    /\ call' = [call EXCEPT !.printed =
                  IF Len(call.pdf_paths) > 1
                  THEN Append(@, [line |-> "Summary",
                                  processed |-> Len(call.pdf_paths),
                                  marked |-> call.total_marked,
                                  json |-> call.total_json])
                  ELSE @]
    /\ ret' = Returned("None")
    /\ UNCHANGED pipeline

NextMain == MainNoPdfs \/ MainIterationReturns \/ MainIterationRaises \/ MainSummary

SpecMain == InitMain /\ [][NextMain]_vars

--------------------------------------------------------------------------
(* Properties of the batch loop (SpecMain) *)

\* The lines main printed for documents, in the order printed.
DocumentLines ==
    SelectSeq(call.printed, LAMBDA e : "pdf_name" \in DOMAIN e)

\* The outcome of process_pdf on the k-th document of the batch.
OutcomeOf(k) == process_pdf(call.files[call.pdf_paths[k]], call.options)

\* A document fails when it cannot be read, when a glyph has no page
\* number, or when an output that has to be written cannot be written.
FailsAt(k) ==
    LET doc == call.files[call.pdf_paths[k]]
    IN  \/ doc.fault = "extract"
        \/ \E m \in DOMAIN doc.glyphs : "page" \notin DOMAIN doc.glyphs[m]
        \/ doc.fault \in {"annotate", "export"} /\ OutcomeOf(k).raised

\* C11: a failure while processing one document aborts only that document.
\* The batch is the found paths that are not marked copies, in sorted
\* order; after every step of main the documents handled so far are
\* exactly the first ones of the batch, each once and in order, whatever
\* failed before; a document that fails is reported as an error and no
\* other is; the marked and JSON counters count exactly the handled
\* documents whose processing returned with overlaps and with a marked
\* copy (a JSON file); and when main returns every document of the batch
\* has been handled.
C11_BatchFailureIsolation ==
    call.fn = "main" =>
        LET n == Len(call.pdf_paths)
            handled == DocumentLines
        IN  /\ \A j, k \in 1..n : j < k => PathBefore(call.pdf_paths[j], call.pdf_paths[k])
            /\ {call.pdf_paths[k] : k \in 1..n}
                   = {call.all_pdf_paths[k] : k \in DOMAIN call.all_pdf_paths}
                         \cap {p \in Paths : ~p.marked}
            /\ Len(handled) = Min(call.position - 1, n)
            /\ \A k \in 1..Len(handled) :
                   /\ handled[k].pdf_name = call.pdf_paths[k]
                   /\ (handled[k].line = "Error") = FailsAt(k)
                   /\ (handled[k].line = "Error") = OutcomeOf(k).raised
            /\ call.total_marked =
                   Cardinality({k \in 1..Len(handled) :
                                   /\ ~OutcomeOf(k).raised
                                   /\ OutcomeOf(k).overlaps_count > 0
                                   /\ OutcomeOf(k).marked_path})
            /\ call.total_json =
                   Cardinality({k \in 1..Len(handled) :
                                   /\ ~OutcomeOf(k).raised
                                   /\ OutcomeOf(k).overlaps_count > 0
                                   /\ OutcomeOf(k).json_path})
            /\ ret.done => Len(handled) = n

\* C11 witness: main returned from a batch whose first document failed
\* and whose second document was then processed, marked and exported.
C11_LaterDocumentWitness ==
    /\ call.fn = "main"
    /\ ret.done
    /\ Len(call.pdf_paths) = 2
    /\ Len(DocumentLines) = 2
    /\ DocumentLines[1].line = "Error"
    /\ DocumentLines[2].line = "overlaps"
    /\ call.total_marked = 1
    /\ call.total_json = 1

--------------------------------------------------------------------------
(* Properties of the highlight sets (Spec) *)

\* The pages that have a highlight entry.
HighlightPages ==
    {scan.highlights_by_page[k].page : k \in DOMAIN scan.highlights_by_page}

\* The boxes of the kept records of a page, and the boxes of the kept
\* pairs of glyphs of a page.
RecordBoxes(page) ==
    {scan.overlaps[m].a : m \in {n \in DOMAIN scan.overlaps : scan.overlaps[n].page = page}}
    \cup {scan.overlaps[m].b : m \in {n \in DOMAIN scan.overlaps : scan.overlaps[n].page = page}}

KeptPairBoxes(page) ==
    {BoxOf(PairA(pr)) : pr \in {q \in KeptPairs : by_page[q[1]].page = page}}
    \cup {BoxOf(PairB(pr)) : pr \in {q \in KeptPairs : by_page[q[1]].page = page}}

\* C12: the highlight map has at most one entry per page; a page has an
\* entry iff it has at least one kept record; the entry of a page is
\* exactly the set of the boxes that are box A or box B of a kept record
\* of that page (as a set of (x, y, w, h) values: glyphs with equal boxes
\* share one member); and an empty glyph list gives no page groups, zero
\* overlaps, no highlight entries and no character statistics.
C12_HighlightSets ==
    Scanned =>
        LET H == scan.highlights_by_page
        IN  /\ \A j, k \in DOMAIN H : j # k => H[j].page # H[k].page
            /\ HighlightPages = {scan.overlaps[m].page : m \in DOMAIN scan.overlaps}
            /\ HighlightPages = {by_page[pr[1]].page : pr \in KeptPairs}
            /\ \A k \in DOMAIN H :
                   /\ H[k].rects = RecordBoxes(H[k].page)
                   /\ H[k].rects = KeptPairBoxes(H[k].page)
                   /\ H[k].rects # {}
            /\ glyphs_list = <<>> =>
                   /\ by_page = <<>>
                   /\ scan.total = 0
                   /\ scan.overlaps = <<>>
                   /\ H = <<>>
                   /\ pc = "returned" => report.char_stats = [none |-> TRUE]

\* C12 witness: two glyphs with equal boxes on one page were kept as one
\* record and share one highlight box, while a second page with a glyph
\* has no highlight entry.
C12_SharedBoxWitness ==
    /\ Scanned
    /\ Len(by_page) = 2
    /\ scan.total = 1
    /\ scan.overlaps[1].a = scan.overlaps[1].b
    /\ Len(scan.highlights_by_page) = 1
    /\ scan.highlights_by_page[1].rects = {scan.overlaps[1].a}

--------------------------------------------------------------------------
(* Direct calls of calculate_character_statistics.  The function reads     *)
(* only the char_a and char_b of a record.                                 *)

MaxOverlaps == 3
StatsChars == {"A", "i", " "}

OverlapLists ==
    UNION {[1..n -> [char_a : StatsChars, char_b : StatsChars]] : n \in 0..MaxOverlaps}

InitStats ==
    /\ call \in [fn : {"calculate_character_statistics"}, overlaps : OverlapLists]
    /\ ret = NoRet
    /\ Idle

CallCharacterStatistics ==
    /\ call.fn = "calculate_character_statistics"
    /\ ret = NoRet
    /\ ret' = Returned(calculate_character_statistics(call.overlaps))
    /\ UNCHANGED <<call, pipeline>>

NextStats == CallCharacterStatistics

SpecStats == InitStats /\ [][NextStats]_vars

--------------------------------------------------------------------------
(* Properties of the statistics engine (SpecStats) *)

StatsReturned == call.fn = "calculate_character_statistics" /\ ret.done

\* The number of slots (char_a or char_b) of the overlap list that hold ch.
Slots(ch) ==
    Cardinality({m \in DOMAIN call.overlaps : call.overlaps[m].char_a = ch})
    + Cardinality({m \in DOMAIN call.overlaps : call.overlaps[m].char_b = ch})

SlotChars ==
    {call.overlaps[m].char_a : m \in DOMAIN call.overlaps}
    \cup {call.overlaps[m].char_b : m \in DOMAIN call.overlaps}

RECURSIVE TableSum(_)
TableSum(table) ==
    IF table = <<>> THEN 0 ELSE Head(table).overlap_count + TableSum(Tail(table))

\* C13: the table lists every character of the overlap list exactly once,
\* with the number of slots in which it appears; the counts sum to twice
\* the number of records, which is total_character_occurrences; the rows
\* are in non-increasing order of count; each percentage is the count over
\* the total character occurrences, times 100, rounded to two decimals;
\* and an empty overlap list yields an empty table.
C13_CharacterStatistics ==
    StatsReturned =>
        LET table == ret.value.character_stats
            records == Len(call.overlaps)
        IN  /\ Len(table) = Cardinality(SlotChars)
            /\ {table[k].character : k \in DOMAIN table} = SlotChars
            /\ \A k \in DOMAIN table : table[k].overlap_count = Slots(table[k].character)
            /\ TableSum(table) = 2 * records
            /\ \A j, k \in DOMAIN table :
                   j < k => table[j].overlap_count >= table[k].overlap_count
            /\ \A k \in DOMAIN table :
                   IsRoundedPct(table[k].percentage, table[k].overlap_count, 2 * records)
            /\ ret.value.total_unique_chars = Cardinality(SlotChars)
            /\ records > 0 => ret.value.total_character_occurrences = 2 * records
            /\ records = 0 => ret.value = [character_stats |-> <<>>, total_unique_chars |-> 0]

\* C13 witness: three records in which one character fills three slots,
\* one of them twice in the same record, and heads the table with 50
\* percent of the six occurrences (not 100 percent of the three records).
C13_RepeatedCharacterWitness ==
    /\ StatsReturned
    /\ Len(call.overlaps) = 3
    /\ \E m \in DOMAIN call.overlaps : call.overlaps[m].char_a = call.overlaps[m].char_b
    /\ Len(ret.value.character_stats) = 3
    /\ ret.value.character_stats[1].overlap_count = 3
    /\ ret.value.character_stats[1].percentage = 50 * Hundredths
    /\ ret.value.character_stats[3].percentage = 1667

--------------------------------------------------------------------------
(* Position labels.  Coordinates and page sizes are in ticks; the page     *)
(* sizes drawn are multiples of three ticks, so a third is exact.          *)

\* The comparison with a boundary taken as inclusive.
Below_inclusive(v, boundary) == v <= boundary

\* The comparisons of lines 272, 274, 281 and 283.
Below(v, boundary) == v < boundary

get_position_label(x, y, page_width, page_height) ==
    LET v_third == page_height \div 3
        v_pos == IF Below(y, v_third) THEN "bottom"
                 ELSE IF Below(y, 2 * v_third) THEN "middle"
                 ELSE "top"
        h_third == page_width \div 3
        h_pos == IF Below(x, h_third) THEN "left"
                 ELSE IF Below(x, 2 * h_third) THEN "center"
                 ELSE "right"
    IN  v_pos \o "-" \o h_pos

\* Inputs: pages of 150 and 300 points a side; coordinates every 50 points
\* from 0, each also one tick lower and one tick higher, and the points 10
\* and 290.
MaxLabelStep == 6
LabelStep == 50 * TicksPerPoint
PageSizes == {150 * TicksPerPoint, 300 * TicksPerPoint}
LabelCoords ==
    {k * LabelStep + d : k \in 0..MaxLabelStep, d \in {-1, 0, 1}}
    \cup {10 * TicksPerPoint, 290 * TicksPerPoint}

InitLabel ==
    /\ call \in {c \in [fn : {"get_position_label"}, x : LabelCoords, y : LabelCoords,
                        page_width : PageSizes, page_height : PageSizes] :
                    c.page_width % 3 = 0 /\ c.page_height % 3 = 0}
    /\ ret = NoRet
    /\ Idle

CallPositionLabel ==
    /\ call.fn = "get_position_label"
    /\ ret = NoRet
    /\ ret' = Returned(get_position_label(call.x, call.y, call.page_width, call.page_height))
    /\ UNCHANGED <<call, pipeline>>

NextLabel == CallPositionLabel

SpecLabel == InitLabel /\ [][NextLabel]_vars

--------------------------------------------------------------------------
(* Properties of the position labels (SpecLabel) *)

LabelReturned == call.fn = "get_position_label" /\ ret.done

NineLabels ==
    {"bottom-left", "bottom-center", "bottom-right",
     "middle-left", "middle-center", "middle-right",
     "top-left", "top-center", "top-right"}

\* The third in which v lies on an extent of the given size, with the
\* boundaries H/3 and 2H/3 in the upper bucket: 3v against H and 2H.
ThirdOf(v, size, low, mid, high) ==
    IF 3 * v < size THEN low
    ELSE IF 3 * v < 2 * size THEN mid
    ELSE high

\* C14: the label is one of the nine labels, and it is the pair of the
\* vertical third of y (bottom below H/3, middle from H/3 to below 2H/3,
\* top from 2H/3) and the horizontal third of x (left, center, right, with
\* W); a coordinate exactly on a boundary is in the higher bucket.  On a
\* 300 x 300 page (10, 10) is bottom-left, (290, 290) is top-right and
\* (150, 150) is middle-center.
C14_PositionLabel ==
    LabelReturned =>
        LET v == ThirdOf(call.y, call.page_height, "bottom", "middle", "top")
            h == ThirdOf(call.x, call.page_width, "left", "center", "right")
            square == call.page_width = 300 * TicksPerPoint
                      /\ call.page_height = 300 * TicksPerPoint
            at(px, py) == call.x = px * TicksPerPoint /\ call.y = py * TicksPerPoint
        IN  /\ ret.value \in NineLabels
            /\ ret.value = v \o "-" \o h
            /\ (square /\ at(10, 10)) => ret.value = "bottom-left"
            /\ (square /\ at(290, 290)) => ret.value = "top-right"
            /\ (square /\ at(150, 150)) => ret.value = "middle-center"

\* C14 witness: on a 300 x 300 page a point with y exactly on the lower
\* boundary of the middle third and x exactly on the lower boundary of the
\* right third was labelled middle-right.
C14_BoundaryWitness ==
    /\ LabelReturned
    /\ call.page_width = 300 * TicksPerPoint
    /\ call.page_height = 300 * TicksPerPoint
    /\ 3 * call.y = call.page_height
    /\ 3 * call.x = 2 * call.page_width
    /\ ret.value = "middle-right"

--------------------------------------------------------------------------
(* Properties of the page grouper (Spec) *)

Grouped == pc \in {"grouped", "scanned", "returned"}

\* The glyph is discarded: filtering is on and it is a watermark.
Discarded(g) ==
    args.filter_watermarks /\ is_watermark(g, DefaultWatermarkFontSize, <<"None">>)

\* The retained glyphs of a page, in extraction order.
RetainedOf(page) ==
    SelectSeq(glyphs_list, LAMBDA g : g.page = page /\ ~Discarded(g))

\* The output record of a retained glyph: its box trimmed once with the
\* profile of its character when trimming is on, its box as extracted
\* when trimming is off.
OutputOf(g) ==
    LET box == IF args.enable_char_trim
               THEN _apply_trim(g.bbox, _get_char_trim_percents(g.char, args.trim_scale))
               ELSE g.bbox
    IN  [char |-> g.char, x |-> box[1], y |-> box[2], width |-> box[3], height |-> box[4]]

GroupedAsExpected ==
    Grouped =>
        /\ \A k \in DOMAIN glyphs_list : "page" \in DOMAIN glyphs_list[k]
        /\ \A j, k \in DOMAIN by_page : j # k => by_page[j].page # by_page[k].page
        /\ {by_page[k].page : k \in DOMAIN by_page}
               = {glyphs_list[k].page :
                     k \in {m \in DOMAIN glyphs_list : ~Discarded(glyphs_list[m])}}
        /\ \A k \in DOMAIN by_page :
               LET retained == RetainedOf(by_page[k].page)
               IN  by_page[k].glyphs = [m \in DOMAIN retained |-> OutputOf(retained[m])]
        /\ glyphs_list = <<>> => by_page = <<>>

\* C15: when every glyph has a page number, the page groups hold exactly
\* the glyphs that are not discarded, each once, under its own page and in
\* extraction order; the discarded glyphs are exactly the watermarks when
\* filtering is on and none when it is off; a retained box is trimmed once
\* when trimming is on and passed through unchanged when it is off; an
\* empty list gives no page groups; and no step changes the extracted
\* glyph list.
C15_GroupingPreservesGlyphs ==
    /\ []GroupedAsExpected
    /\ [][glyphs_list' = glyphs_list]_vars

\* C15 witness: with filtering and trimming on, a page whose second glyph
\* is a watermark was grouped into its first and third glyph, in that
\* order, with trimmed boxes.
C15_FilterTrimWitness ==
    /\ pc = "grouped"
    /\ args.filter_watermarks
    /\ args.enable_char_trim
    /\ Len(glyphs_list) = 3
    /\ ~Discarded(glyphs_list[1]) /\ Discarded(glyphs_list[2]) /\ ~Discarded(glyphs_list[3])
    /\ glyphs_list[1].char # glyphs_list[3].char
    /\ Len(by_page) = 1
    /\ Len(by_page[1].glyphs) = 2
    /\ by_page[1].glyphs[1].char = glyphs_list[1].char
    /\ by_page[1].glyphs[2].char = glyphs_list[3].char
    /\ by_page[1].glyphs[1].width < glyphs_list[1].bbox[3]

--------------------------------------------------------------------------
(* Direct calls of _get_char_trim_percents: every character of the         *)
(* category sets, every digit and letter, and three other characters.      *)

ProfileChars ==
    punct_small \cup thin_stems \cup hooks \cup brackets \cup math_ops \cup quotes
    \cup diacritics \cup Digits \cup Range(LowerCase) \cup Range(UpperCase)
    \cup {" ", "@", "#"}

InitProfile ==
    /\ call \in [fn : {"_get_char_trim_percents"}, ch : ProfileChars, scale : TrimScales]
    /\ ret = NoRet
    /\ Idle

CallTrimPercents ==
    /\ call.fn = "_get_char_trim_percents"
    /\ ret = NoRet
    /\ ret' = Returned(_get_char_trim_percents(call.ch, call.scale))
    /\ UNCHANGED <<call, pipeline>>

NextProfile == CallTrimPercents

SpecProfile == InitProfile /\ [][NextProfile]_vars

--------------------------------------------------------------------------
(* Properties of the trim profiles (SpecProfile) *)

ProfileReturned == call.fn = "_get_char_trim_percents" /\ ret.done

\* The table as the claim reads it, in percent <<left/right, top/bottom>>:
\* every bracket and every quote character has the bracket/quote profile.
ClaimedPercents(ch) ==
    IF ch \in brackets \cup quotes THEN <<8, 10>>
    ELSE IF ch \in punct_small THEN <<25, 25>>
    ELSE IF ch \in thin_stems THEN <<12, 18>>
    ELSE IF ch \in hooks THEN <<10, 12>>
    ELSE IF ch \in math_ops THEN <<10, 10>>
    ELSE IF ch \in diacritics THEN <<20, 20>>
    ELSE IF ch \in Digits THEN <<6, 8>>
    ELSE IF ch \in Range(LowerCase) \cup Range(UpperCase) THEN <<7, 10>>
    ELSE <<5, 5>>

\* C16: every character gets the profile of its category in the table,
\* left = right and top = bottom, every value multiplied by the scale;
\* every bracket and every quote character, the straight quotes included,
\* gets 8% / 10%.  Taken at the default scale 1.0 alone: the claim covers
\* every scale, so what violates this violates it.
C16_TrimTable ==
    (ProfileReturned /\ call.scale = ScaleDen) =>
        /\ ret.value.left = ret.value.right
        /\ ret.value.top = ret.value.bottom
        /\ ret.value.left = ClaimedPercents(call.ch)[1] * call.scale
        /\ ret.value.top = ClaimedPercents(call.ch)[2] * call.scale

==========================================================================
